---- MODULE Spec2Model ----
(***************************************************************************)
(* CustomOpenAICompatibleModel (src/mytests/custom_model_example.py): an   *)
(* adapter over an OpenAI-compatible asynchronous chat-completion client.  *)
(* __call__ issues one request and returns either one ChatResponse or an   *)
(* async generator of ChatResponse values (_parse_stream_response).        *)
(*                                                                         *)
(* Text is a sequence of one-character strings.  A Python value that may   *)
(* be None is a record with an isNone flag; an optional token counter is   *)
(* NoneInt or a natural number.                                            *)
(***************************************************************************)
EXTENDS Integers, Sequences, FiniteSets, TLC

\* ------------------------------------------------------------- bounds
\* call slots of one adapter instance
NumCalls == 2
\* chunks the transport delivers on one stream
MaxChunks == 3
\* agent replies in one conversation
MaxTurns == 2
\* research topics entered in one interactive session
MaxQueries == 2
\* choices in one non-streamed completion
MaxChoices == 2
\* wall-clock readings 0..MaxTime
MaxTime == 2
\* requests for a value made to an exhausted sequence
MaxExtraPulls == 1

Calls == 1..NumCalls

Alphabet == {"a", "b"}

\* ------------------------------------------------------------- values
\* str | None, as found in message.content and delta.content
None == [isNone |-> TRUE, text |-> <<>>]

Str(t) == [isNone |-> FALSE, text |-> t]

\* Python truthiness of a str | None value: None and "" are falsy
Truthy(v) == ~v.isNone /\ v.text # <<>>

ContentSet == {None, Str(<<>>)} \cup {Str(<<x>>) : x \in Alphabet}

\* int | None for prompt_tokens / completion_tokens
NoneInt == -1

TokenSet == {NoneInt, 0, 5}

\* Python `x or 0`
OrZero(x) == IF x = NoneInt THEN 0 ELSE x

\* str(e) of the exceptions the client raises (network, authentication)
Errors == {"ConnectionError", "AuthenticationError"}

\* str(e) of the error raised when a response object lacks a field
AttributeError == "AttributeError"

\* the f-string prefix of the failure text, line 124 ("model call failed: ")
FailPrefix == "model call failed: "

\* ------------------------------------------------------------- call arguments
\* messages: non-empty lists of role-tagged messages
MessageLists == {<<"user">>, <<"system", "user">>}

\* tools: list[dict] | None
NoTools == [isNone |-> TRUE, list |-> <<>>]

ToolsSet == {NoTools, [isNone |-> FALSE, list |-> <<>>],
             [isNone |-> FALSE, list |-> <<"search">>]}

\* tool_choice: str | None
ToolChoiceSet == {None, Str(<<>>), Str(<<"auto">>), Str(<<"none">>)}

ArgSet == [messages : MessageLists, tools : ToolsSet, tool_choice : ToolChoiceSet]

NoArgs == [messages |-> <<>>, tools |-> NoTools, tool_choice |-> None]

\* request_kwargs, lines 94-107: a dict whose tools and tool_choice keys are optional
NoRequest ==
    [sent |-> FALSE, messages |-> <<>>, stream |-> FALSE,
     hasTools |-> FALSE, tools |-> <<>>, hasToolChoice |-> FALSE, tool_choice |-> <<>>]

\* request_kwargs with the tools key set unconditionally
RequestKwargsAlwaysTools(a, s) ==
    [sent |-> TRUE, messages |-> a.messages, stream |-> s,
     hasTools |-> TRUE,
     tools |-> a.tools.list,
     hasToolChoice |-> Truthy(a.tool_choice),
     tool_choice |-> IF Truthy(a.tool_choice) THEN a.tool_choice.text ELSE <<>>]

RequestKwargs(a, s) ==
    [sent |-> TRUE, messages |-> a.messages, stream |-> s,
     hasTools |-> ~a.tools.isNone /\ a.tools.list # <<>>,
     tools |-> IF ~a.tools.isNone /\ a.tools.list # <<>> THEN a.tools.list ELSE <<>>,
     hasToolChoice |-> Truthy(a.tool_choice),
     tool_choice |-> IF Truthy(a.tool_choice) THEN a.tool_choice.text ELSE <<>>]

\* ------------------------------------------------------------- transport objects
\* one element of response.choices (non-streamed): message may be missing
ChoiceSet == [hasMessage : {TRUE}, content : ContentSet]
               \cup {[hasMessage |-> FALSE, content |-> None]}

\* response.usage: no attribute / None / a record
TransportUsageSet == {[kind |-> "absent", prompt_tokens |-> NoneInt, completion_tokens |-> NoneInt],
                      [kind |-> "none", prompt_tokens |-> NoneInt, completion_tokens |-> NoneInt]}
                       \cup [kind : {"record"}, prompt_tokens : TokenSet, completion_tokens : TokenSet]

SeqsUpTo(S, n) == UNION {[1..k -> S] : k \in 0..n}

\* a non-streamed completion object
CompletionSet == [choices : SeqsUpTo(ChoiceSet, MaxChoices), usage : TransportUsageSet]

NoCompletion == [choices |-> <<>>, usage |-> [kind |-> "absent", prompt_tokens |-> NoneInt, completion_tokens |-> NoneInt]]

\* choices[0] of a streamed chunk: delta may be missing
DeltaSet == [hasDelta : {TRUE}, content : ContentSet]
              \cup {[hasDelta |-> FALSE, content |-> None]}

\* a streamed chunk: choices is empty or holds one choice
ChunkSet == {[choices |-> <<>>]} \cup {[choices |-> <<d>>] : d \in DeltaSet}

\* ------------------------------------------------------------- adapter objects
TextBlock(t) == [type |-> "text", text |-> t]

NoUsage == [present |-> FALSE, input_tokens |-> 0, output_tokens |-> 0, time |-> 0]

ChatUsage(i, o, t) == [present |-> TRUE, input_tokens |-> i, output_tokens |-> o, time |-> t]

ChatResponse(c, u) == [content |-> c, usage |-> u]

\* the except branch of __call__, lines 119-126
ErrorResponse(e) == ChatResponse(<<TextBlock(<<FailPrefix, e>>)>>, NoUsage)

\* response.choices[0].message.content raises when message is missing
ParseRaises(response) ==
    /\ response.choices # <<>>
    /\ ~response.choices[1].hasMessage

\* _parse_response reading the last choice instead of the first
ParseResponseLastChoice(start, response, clock) ==
    LET n == Len(response.choices)
        content_blocks ==
            IF response.choices # <<>> /\ Truthy(response.choices[n].content)
            THEN <<TextBlock(response.choices[n].content.text)>>
            ELSE <<>>
        usage ==
            IF response.usage.kind = "record"
            THEN ChatUsage(OrZero(response.usage.prompt_tokens),
                           OrZero(response.usage.completion_tokens),
                           clock - start)
            ELSE NoUsage
    IN ChatResponse(content_blocks, usage)

\* _parse_response testing only `response.choices` at line 134: a segment is
\* built from an empty or missing text too
ParseResponseEmptySegment(start, response, clock) ==
    LET content_blocks ==
            IF response.choices # <<>>
            THEN <<TextBlock(response.choices[1].content.text)>>
            ELSE <<>>
        usage ==
            IF response.usage.kind = "record"
            THEN ChatUsage(OrZero(response.usage.prompt_tokens),
                           OrZero(response.usage.completion_tokens),
                           clock - start)
            ELSE NoUsage
    IN ChatResponse(content_blocks, usage)

\* _parse_response without the `or 0` of lines 142-143
ParseResponseRawTokens(start, response, clock) ==
    LET content_blocks ==
            IF response.choices # <<>> /\ Truthy(response.choices[1].content)
            THEN <<TextBlock(response.choices[1].content.text)>>
            ELSE <<>>
        usage ==
            IF response.usage.kind = "record"
            THEN ChatUsage(response.usage.prompt_tokens,
                           response.usage.completion_tokens,
                           clock - start)
            ELSE NoUsage
    IN ChatResponse(content_blocks, usage)

\* _parse_response, lines 128-147
ParseResponse(start, response, clock) ==
    LET content_blocks ==
            IF response.choices # <<>> /\ Truthy(response.choices[1].content)
            THEN <<TextBlock(response.choices[1].content.text)>>
            ELSE <<>>
        usage ==
            IF response.usage.kind = "record"
            THEN ChatUsage(OrZero(response.usage.prompt_tokens),
                           OrZero(response.usage.completion_tokens),
                           clock - start)
            ELSE NoUsage
    IN ChatResponse(content_blocks, usage)

\* chunk.choices[0].delta.content raises when delta is missing
ChunkRaises(chunk) ==
    /\ chunk.choices # <<>>
    /\ ~chunk.choices[1].hasDelta

\* line 159 testing `is not None` instead of truthiness
ChunkHasTextNotNone(chunk) ==
    /\ chunk.choices # <<>>
    /\ ~chunk.choices[1].content.isNone

\* line 159 testing only `chunk.choices`
ChunkHasChoices(chunk) == chunk.choices # <<>>

\* the condition of line 159
ChunkHasText(chunk) ==
    /\ chunk.choices # <<>>
    /\ Truthy(chunk.choices[1].content)

\* line 161 assigning the delta instead of appending it
AccumulateDeltaOnly(acc, chunk) == chunk.choices[1].content.text

\* line 161
Accumulate(acc, chunk) == acc \o chunk.choices[1].content.text

\* an intermediate value that carries a usage record
StreamValueWithUsage(acc) == ChatResponse(<<TextBlock(acc)>>, ChatUsage(0, 0, 0))

\* the value yielded inside the loop, lines 163-165
StreamValue(acc) == ChatResponse(<<TextBlock(acc)>>, NoUsage)

\* a final value whose time is the clock reading, not the elapsed time
FinalValueClockReading(acc, start, clock) ==
    ChatResponse(<<TextBlock(acc)>>, ChatUsage(0, 0, clock))

\* the value yielded after the loop, lines 168-176
FinalValue(acc, start, clock) ==
    ChatResponse(<<TextBlock(acc)>>, ChatUsage(0, 0, clock - start))

\* ------------------------------------------------------------- example scripts
\* the environment of an entry function: CUSTOM_OPENAI_API_KEY and
\* CUSTOM_OPENAI_BASE_URL set or not, npx on the PATH or not
ConfigSet == [api_key : BOOLEAN, base_url : BOOLEAN, npx : BOOLEAN]

NoConfig == [api_key |-> FALSE, base_url |-> FALSE, npx |-> FALSE]

\* what an awaited call does: return, raise an Exception, or raise an
\* exception that is no Exception (KeyboardInterrupt, asyncio.CancelledError)
Outcomes == {"ok", "Exception", "BaseException"}

\* the entry functions of the example scripts
Scripts == {"main_customer", "main", "main_fixed", "main_verbose", "main_improved", "main_compatible",
            "interactive_custom_model", "interactive_chat", "test_custom_models",
            "test_custom_model", "interactive_mode"}

\* what the user types at the prompt of interactive_mode; "tuichu" stands for
\* the Chinese word for exit, which the source spells in Chinese characters
QueryInputs == {"quit", " EXIT ", "tuichu", "", "  ", "topic"}

\* str.strip() on what the user types
Strip(text) ==
    CASE text = " EXIT " -> "EXIT"
      [] text = "  " -> ""
      [] OTHER -> text

\* the words that end interactive_mode, main_improved.py line 172
QuitWords == {"quit", "exit", "tuichu"}

\* what os.environ.get returns for a variable: None (unset), "" or a text
EnvValues == {None, Str(<<>>), Str(<<"a">>)}

EnvSet == [api_key : EnvValues, base_url : EnvValues, model_name : EnvValues]

NoEnv == [api_key |-> None, base_url |-> None, model_name |-> None]

\* a create_custom_model that only rejects unset variables
CreateCustomModelNoneOnly(e) ==
    IF e.api_key.isNone THEN "CUSTOM_OPENAI_API_KEY"
    ELSE IF e.base_url.isNone THEN "CUSTOM_OPENAI_BASE_URL"
    ELSE IF e.model_name.isNone THEN "CUSTOM_MODEL_NAME"
    ELSE ""

\* create_custom_model, test_custom_model.py lines 27-36: the variable the
\* ValueError names, "" when the checks pass and the model is constructed
CreateCustomModel(e) ==
    IF ~Truthy(e.api_key) THEN "CUSTOM_OPENAI_API_KEY"
    ELSE IF ~Truthy(e.base_url) THEN "CUSTOM_OPENAI_BASE_URL"
    ELSE IF ~Truthy(e.model_name) THEN "CUSTOM_MODEL_NAME"
    ELSE ""

\* the entry functions whose agent registers the search tools in a background
\* task
BackgroundScripts == {"main_improved", "main_compatible"}

\* the keys of model_configs in test_custom_models, in insertion order
ModelConfigs == <<"DashScope", "OpenAI", "Ollama", "custom", "vLLM">>

\* what the user types
UserInputs == {"exit", "EXIT", "hello", ""}

\* str.lower() on what the user types
Lower(text) == IF text = "EXIT" THEN "exit" ELSE text

\* a loop that compares the user's text with "exit" as it is
LoopExitsExact(s, text) == text = "exit"

\* whether the conversation loop of entry function `s` breaks on the user's
\* text: main_customer.py line 72, custom_model_example.py line 355,
\* test_custom_model.py line 153
LoopExits(s, text) ==
    IF s = "main_customer"
    THEN text = "exit"
    ELSE text # "" /\ Lower(text) = "exit"

\* ------------------------------------------------------------- state
VARIABLES
    stream,            \* self.stream, fixed at construction
    now,               \* datetime.now()
    pc,                \* where each call is
    args,              \* the arguments of a call whose request is in flight
    request,           \* the request in flight to the transport
    start_time,        \* start_time of each call
    requests,          \* client.chat.completions.create invocations of each call
    result_kind,       \* what __call__ returned: "none" | "single" | "sequence"
    response,          \* the completion the transport returned (non-streamed)
    received,          \* the chunks the transport delivered (streamed)
    accumulated_text,  \* the generator's accumulator
    produced,          \* the response values delivered to the caller, in order
    raised,            \* str(e) of an exception that reached the caller, or ""
    error,             \* str(e) of the exception raised inside the try block, or ""
    pulls,             \* how many times the consumer asked the sequence for a value
    \* one run of an entry function of the example and test scripts
    script,            \* which script runs, "none" when none does
    config,            \* the environment: which settings are present
    spc,               \* where the entry function is
    tried,             \* whether the try block was entered
    exc,               \* the exception in flight: "" | "Exception" | "BaseException"
    turns,             \* agent calls so far
    trace,             \* the configuration checks made and the calls made on the
                       \* tool-server client, the user, the agent and the model
    escaped,           \* the exception that left the entry function, "" when none
    closed,            \* what close() did: "" (not called) | "ok" | "Exception" | "BaseException"
    escaped_from,      \* where the escaped exception was raised: "" | "check" | "try" | "print" | "close"
    task,              \* where the background registration task is, "none" when none exists
    env                \* CUSTOM_OPENAI_API_KEY, CUSTOM_OPENAI_BASE_URL and CUSTOM_MODEL_NAME
                       \* as create_custom_model reads them

adapterVars == <<stream, now, pc, args, request, start_time, requests, result_kind, response,
                 received, accumulated_text, produced, raised, error, pulls>>

cleanupVars == <<closed, escaped_from>>

scriptVars == <<script, config, spc, tried, exc, turns, trace, escaped, cleanupVars, task, env>>

vars == <<adapterVars, scriptVars>>

Fresh ==
    [pc |-> "idle", args |-> NoArgs, request |-> NoRequest, start_time |-> 0, requests |-> 0, result_kind |-> "none",
     response |-> NoCompletion, received |-> <<>>, accumulated_text |-> <<>>,
     produced |-> <<>>, raised |-> "", error |-> "", pulls |-> 0]

AdapterInit ==
    /\ stream \in BOOLEAN
    /\ now = 0
    /\ pc = [c \in Calls |-> Fresh.pc]
    /\ args = [c \in Calls |-> Fresh.args]
    /\ request = [c \in Calls |-> Fresh.request]
    /\ start_time = [c \in Calls |-> Fresh.start_time]
    /\ requests = [c \in Calls |-> Fresh.requests]
    /\ result_kind = [c \in Calls |-> Fresh.result_kind]
    /\ response = [c \in Calls |-> Fresh.response]
    /\ received = [c \in Calls |-> Fresh.received]
    /\ accumulated_text = [c \in Calls |-> Fresh.accumulated_text]
    /\ produced = [c \in Calls |-> Fresh.produced]
    /\ raised = [c \in Calls |-> Fresh.raised]
    /\ error = [c \in Calls |-> Fresh.error]
    /\ pulls = [c \in Calls |-> Fresh.pulls]

\* no entry function runs
ScriptIdle ==
    /\ script = "none"
    /\ config = NoConfig
    /\ spc = "notStarted"
    /\ tried = FALSE
    /\ exc = ""
    /\ turns = 0
    /\ trace = <<>>
    /\ escaped = ""
    /\ closed = ""
    /\ escaped_from = ""
    /\ task = "none"
    /\ env = NoEnv

Init == AdapterInit /\ ScriptIdle

\* the wall clock advances
Tick ==
    /\ now < MaxTime
    /\ now' = now + 1
    /\ UNCHANGED <<stream, pc, args, request, start_time, requests, result_kind,
                   response, received, accumulated_text, produced, raised,
                   error>>
    /\ UNCHANGED pulls
    /\ UNCHANGED scriptVars

\* __call__ up to the await of line 112, with arguments drawn from A: the
\* request is issued
Issue(c, A) ==
    /\ pc[c] = "idle"
    /\ \E a \in A :
         /\ args' = [args EXCEPT ![c] = a]
         /\ request' = [request EXCEPT ![c] = RequestKwargs(a, stream)]
    /\ pc' = [pc EXCEPT ![c] = "awaitCreate"]
    /\ start_time' = [start_time EXCEPT ![c] = now]
    /\ requests' = [requests EXCEPT ![c] = @ + 1]
    /\ UNCHANGED <<stream, now, result_kind, response, received,
                   accumulated_text, produced, raised,
                   error>>
    /\ UNCHANGED pulls
    /\ UNCHANGED scriptVars

\* a call of the adapter by a caller that awaits one call at a time, as the
\* callers of this repository do
Call(c) ==
    /\ \A d \in Calls : pc[d] = "idle"
    /\ Issue(c, ArgSet)

\* line 112 without the except branch: the exception reaches the caller
CreateFailsReraises(c) ==
    /\ pc[c] = "awaitCreate"
    /\ args' = [args EXCEPT ![c] = Fresh.args]
    /\ request' = [request EXCEPT ![c] = Fresh.request]
    /\ \E e \in Errors :
         /\ error' = [error EXCEPT ![c] = e]
         /\ raised' = [raised EXCEPT ![c] = e]
    /\ pc' = [pc EXCEPT ![c] = "raised"]
    /\ UNCHANGED <<stream, now, start_time, requests, result_kind, response,
                   received, accumulated_text, produced>>
    /\ UNCHANGED pulls
    /\ UNCHANGED scriptVars

\* an except branch that issues the request again
CreateFailsRetries(c) ==
    /\ pc[c] = "awaitCreate"
    /\ requests[c] < 3
    /\ \E e \in Errors : error' = [error EXCEPT ![c] = e]
    /\ requests' = [requests EXCEPT ![c] = @ + 1]
    /\ UNCHANGED <<stream, now, pc, args, request, start_time, result_kind,
                   response, received, accumulated_text, produced, raised>>
    /\ UNCHANGED pulls
    /\ UNCHANGED scriptVars

\* the transport raises at line 112: the except branch returns a response
CreateFails(c) ==
    /\ pc[c] = "awaitCreate"
    /\ args' = [args EXCEPT ![c] = Fresh.args]
    /\ request' = [request EXCEPT ![c] = Fresh.request]
    /\ \E e \in Errors :
         /\ error' = [error EXCEPT ![c] = e]
         /\ produced' = [produced EXCEPT ![c] = <<ErrorResponse(e)>>]
    /\ result_kind' = [result_kind EXCEPT ![c] = "single"]
    /\ pc' = [pc EXCEPT ![c] = "done"]
    /\ UNCHANGED <<stream, now, start_time, requests, response, received,
                   accumulated_text, raised>>
    /\ UNCHANGED pulls
    /\ UNCHANGED scriptVars

\* _parse_response called outside the try block: a mapping error escapes
CreateReturnsCompletionUnguarded(c) ==
    /\ pc[c] = "awaitCreate"
    /\ ~stream
    /\ args' = [args EXCEPT ![c] = Fresh.args]
    /\ request' = [request EXCEPT ![c] = Fresh.request]
    /\ \E r \in CompletionSet :
         /\ response' = [response EXCEPT ![c] = r]
         /\ error' = [error EXCEPT ![c] = IF ParseRaises(r) THEN AttributeError ELSE ""]
         /\ IF ParseRaises(r)
            THEN /\ raised' = [raised EXCEPT ![c] = AttributeError]
                 /\ pc' = [pc EXCEPT ![c] = "raised"]
                 /\ UNCHANGED <<produced, result_kind>>
            ELSE /\ produced' = [produced EXCEPT ![c] = <<ParseResponse(start_time[c], r, now)>>]
                 /\ result_kind' = [result_kind EXCEPT ![c] = "single"]
                 /\ pc' = [pc EXCEPT ![c] = "done"]
                 /\ UNCHANGED raised
    /\ UNCHANGED <<stream, now, start_time, requests, received,
                   accumulated_text>>
    /\ UNCHANGED pulls
    /\ UNCHANGED scriptVars

\* the transport returns a completion, self.stream is false: lines 116-117
CreateReturnsCompletion(c) ==
    /\ pc[c] = "awaitCreate"
    /\ args' = [args EXCEPT ![c] = Fresh.args]
    /\ request' = [request EXCEPT ![c] = Fresh.request]
    /\ ~stream
    /\ \E r \in CompletionSet :
         /\ response' = [response EXCEPT ![c] = r]
         /\ error' = [error EXCEPT ![c] = IF ParseRaises(r) THEN AttributeError ELSE ""]
         /\ produced' = [produced EXCEPT ![c] =
                IF ParseRaises(r)
                THEN <<ErrorResponse(AttributeError)>>
                ELSE <<ParseResponse(start_time[c], r, now)>>]
    /\ result_kind' = [result_kind EXCEPT ![c] = "single"]
    /\ pc' = [pc EXCEPT ![c] = "done"]
    /\ UNCHANGED <<stream, now, start_time, requests, received,
                   accumulated_text, raised>>
    /\ UNCHANGED pulls
    /\ UNCHANGED scriptVars

\* a stream parser that starts reading the stream before it is asked for a value
CreateReturnsStreamPrefetching(c) ==
    /\ pc[c] = "awaitCreate"
    /\ args' = [args EXCEPT ![c] = Fresh.args]
    /\ request' = [request EXCEPT ![c] = Fresh.request]
    /\ stream
    /\ result_kind' = [result_kind EXCEPT ![c] = "sequence"]
    /\ pc' = [pc EXCEPT ![c] = "awaitChunk"]
    /\ UNCHANGED <<stream, now, start_time, requests, response, received,
                   accumulated_text, produced, raised, error, pulls>>
    /\ UNCHANGED scriptVars

\* the transport returns a stream, self.stream is true: lines 114-115.
\* Calling the async generator function runs none of its body.
CreateReturnsStream(c) ==
    /\ pc[c] = "awaitCreate"
    /\ args' = [args EXCEPT ![c] = Fresh.args]
    /\ request' = [request EXCEPT ![c] = Fresh.request]
    /\ stream
    /\ result_kind' = [result_kind EXCEPT ![c] = "sequence"]
    /\ pc' = [pc EXCEPT ![c] = "genCreated"]
    /\ UNCHANGED <<stream, now, start_time, requests, response, received,
                   accumulated_text, produced, raised,
                   error>>
    /\ UNCHANGED pulls
    /\ UNCHANGED scriptVars

\* the consumer asks for the next value (__anext__): the generator starts or
\* resumes after a yield of the loop and awaits the next chunk
Pull(c) ==
    /\ pc[c] \in {"genCreated", "yielded"}
    /\ pc' = [pc EXCEPT ![c] = "awaitChunk"]
    /\ UNCHANGED <<stream, now, args, request, start_time, requests, result_kind, response,
                   received, accumulated_text, produced, raised,
                   error>>
    /\ pulls' = [pulls EXCEPT ![c] = @ + 1]
    /\ UNCHANGED scriptVars

\* a generator whose body starts over when it is resumed after the final yield
PullAfterFinalRestarts(c) ==
    /\ pc[c] = "yieldedFinal"
    /\ Len(produced[c]) <= MaxChunks
    /\ pc' = [pc EXCEPT ![c] = "awaitChunk"]
    /\ accumulated_text' = [accumulated_text EXCEPT ![c] = <<>>]
    /\ received' = [received EXCEPT ![c] = <<>>]
    /\ pulls' = [pulls EXCEPT ![c] = @ + 1]
    /\ UNCHANGED <<stream, now, args, request, start_time, requests, result_kind,
                   response, produced, raised, error>>
    /\ UNCHANGED scriptVars

\* the consumer asks for the next value after the final yield: the generator
\* body ends, the sequence is exhausted
PullAfterFinal(c) ==
    /\ pc[c] = "yieldedFinal"
    /\ pc' = [pc EXCEPT ![c] = "exhausted"]
    /\ UNCHANGED <<stream, now, args, request, start_time, requests, result_kind, response,
                   received, accumulated_text, produced, raised,
                   error>>
    /\ pulls' = [pulls EXCEPT ![c] = @ + 1]
    /\ UNCHANGED scriptVars

\* the loop with the accumulator kept on the adapter instance, shared by all
\* its calls (slot 1 stands for the attribute)
ReceiveChunkSharedAccumulator(c, S) ==
    /\ pc[c] = "awaitChunk"
    /\ Len(received[c]) < MaxChunks
    /\ \E chunk \in S :
         /\ received' = [received EXCEPT ![c] = Append(@, chunk)]
         /\ IF ChunkRaises(chunk)
            THEN /\ raised' = [raised EXCEPT ![c] = AttributeError]
                 /\ pc' = [pc EXCEPT ![c] = "raised"]
                 /\ UNCHANGED <<accumulated_text, produced>>
            ELSE IF ChunkHasText(chunk)
            THEN /\ accumulated_text' = [accumulated_text EXCEPT ![1] = Accumulate(@, chunk)]
                 /\ produced' = [produced EXCEPT ![c] =
                        Append(@, StreamValue(Accumulate(accumulated_text[1], chunk)))]
                 /\ pc' = [pc EXCEPT ![c] = "yielded"]
                 /\ UNCHANGED raised
            ELSE UNCHANGED <<accumulated_text, produced, pc, raised>>
    /\ UNCHANGED <<stream, now, args, request, start_time, requests, result_kind, response,
                   error>>
    /\ UNCHANGED pulls
    /\ UNCHANGED scriptVars

\* the consumer asks an exhausted sequence for a value: an async generator
\* whose body has ended (after line 176) only reports that it is exhausted
PullExhausted(c) ==
    /\ pc[c] = "exhausted"
    /\ pulls[c] < Len(produced[c]) + 1 + MaxExtraPulls
    /\ pulls' = [pulls EXCEPT ![c] = @ + 1]
    /\ UNCHANGED <<stream, now, pc, args, request, start_time, requests, result_kind,
                   response, received, accumulated_text, produced, raised, error>>
    /\ UNCHANGED scriptVars

\* the loop yielding one ChatResponse object that it updates in place: every
\* value delivered so far is that object
ReceiveChunkReusesObject(c, S) ==
    /\ pc[c] = "awaitChunk"
    /\ Len(received[c]) < MaxChunks
    /\ \E chunk \in S :
         /\ received' = [received EXCEPT ![c] = Append(@, chunk)]
         /\ IF ChunkRaises(chunk)
            THEN /\ raised' = [raised EXCEPT ![c] = AttributeError]
                 /\ pc' = [pc EXCEPT ![c] = "raised"]
                 /\ UNCHANGED <<accumulated_text, produced>>
            ELSE IF ChunkHasText(chunk)
            THEN /\ accumulated_text' = [accumulated_text EXCEPT ![c] = Accumulate(@, chunk)]
                 /\ produced' = [produced EXCEPT ![c] =
                        [i \in 1..(Len(@) + 1) |->
                            StreamValue(Accumulate(accumulated_text[c], chunk))]]
                 /\ pc' = [pc EXCEPT ![c] = "yielded"]
                 /\ UNCHANGED raised
            ELSE UNCHANGED <<accumulated_text, produced, pc, raised>>
    /\ UNCHANGED <<stream, now, args, request, start_time, requests, result_kind, response,
                   error>>
    /\ UNCHANGED pulls
    /\ UNCHANGED scriptVars

\* the stream delivers a chunk drawn from S: one iteration of the loop,
\* lines 158-165
ReceiveChunkFrom(c, S) ==
    /\ pc[c] = "awaitChunk"
    /\ Len(received[c]) < MaxChunks
    /\ \E chunk \in S :
         /\ received' = [received EXCEPT ![c] = Append(@, chunk)]
         /\ IF ChunkRaises(chunk)
            THEN /\ raised' = [raised EXCEPT ![c] = AttributeError]
                 /\ pc' = [pc EXCEPT ![c] = "raised"]
                 /\ UNCHANGED <<accumulated_text, produced>>
            ELSE IF ChunkHasText(chunk)
            THEN /\ accumulated_text' = [accumulated_text EXCEPT ![c] = Accumulate(@, chunk)]
                 /\ produced' = [produced EXCEPT ![c] =
                        Append(@, StreamValue(Accumulate(accumulated_text[c], chunk)))]
                 /\ pc' = [pc EXCEPT ![c] = "yielded"]
                 /\ UNCHANGED raised
            ELSE UNCHANGED <<accumulated_text, produced, pc, raised>>
    /\ UNCHANGED <<stream, now, args, request, start_time, requests, result_kind, response,
                   error>>
    /\ UNCHANGED pulls
    /\ UNCHANGED scriptVars

\* the stream delivers any chunk
ReceiveChunk(c) == ReceiveChunkFrom(c, ChunkSet)

\* a generator that ends at the end of the loop without the final yield
ReceiveEndNoFinal(c) ==
    /\ pc[c] = "awaitChunk"
    /\ pc' = [pc EXCEPT ![c] = "exhausted"]
    /\ UNCHANGED <<stream, now, args, request, start_time, requests, result_kind,
                   response, received, accumulated_text, produced, raised, error>>
    /\ UNCHANGED pulls
    /\ UNCHANGED scriptVars

\* the stream ends: the loop exits, lines 167-176
ReceiveEnd(c) ==
    /\ pc[c] = "awaitChunk"
    /\ produced' = [produced EXCEPT ![c] =
           Append(@, FinalValue(accumulated_text[c], start_time[c], now))]
    /\ pc' = [pc EXCEPT ![c] = "yieldedFinal"]
    /\ UNCHANGED <<stream, now, args, request, start_time, requests, result_kind, response,
                   received, accumulated_text, raised,
                   error>>
    /\ UNCHANGED pulls
    /\ UNCHANGED scriptVars

\* the transport raises while the generator awaits a chunk: the generator
\* body is outside the try block of __call__, the exception reaches the consumer
ReceiveFails(c) ==
    /\ pc[c] = "awaitChunk"
    /\ \E e \in Errors : raised' = [raised EXCEPT ![c] = e]
    /\ pc' = [pc EXCEPT ![c] = "raised"]
    /\ UNCHANGED <<stream, now, args, request, start_time, requests, result_kind, response,
                   received, accumulated_text, produced,
                   error>>
    /\ UNCHANGED pulls
    /\ UNCHANGED scriptVars

\* the caller drops a finished call; the slot serves the next call
Discard(c) ==
    /\ pc[c] \in {"done", "exhausted", "raised"}
    /\ pc' = [pc EXCEPT ![c] = Fresh.pc]
    /\ UNCHANGED <<args, request>>
    /\ start_time' = [start_time EXCEPT ![c] = Fresh.start_time]
    /\ requests' = [requests EXCEPT ![c] = Fresh.requests]
    /\ result_kind' = [result_kind EXCEPT ![c] = Fresh.result_kind]
    /\ response' = [response EXCEPT ![c] = Fresh.response]
    /\ received' = [received EXCEPT ![c] = Fresh.received]
    /\ accumulated_text' = [accumulated_text EXCEPT ![c] = Fresh.accumulated_text]
    /\ produced' = [produced EXCEPT ![c] = Fresh.produced]
    /\ raised' = [raised EXCEPT ![c] = Fresh.raised]
    /\ error' = [error EXCEPT ![c] = Fresh.error]
    /\ UNCHANGED <<stream, now>>
    /\ pulls' = [pulls EXCEPT ![c] = Fresh.pulls]
    /\ UNCHANGED scriptVars

Next ==
    \/ Tick
    \/ \E c \in Calls : Call(c)
    \/ \E c \in Calls : CreateFails(c)
    \/ \E c \in Calls : CreateReturnsCompletion(c)
    \/ \E c \in Calls : CreateReturnsStream(c)
    \/ \E c \in Calls : Pull(c)
    \/ \E c \in Calls : PullAfterFinal(c)
    \/ \E c \in Calls : PullExhausted(c)
    \/ \E c \in Calls : ReceiveChunk(c)
    \/ \E c \in Calls : ReceiveEnd(c)
    \/ \E c \in Calls : ReceiveFails(c)
    \/ \E c \in Calls : Discard(c)

Spec == Init /\ [][Next]_vars

\* ------------------------------------------------------------- concurrent calls
\* Several calls of one streaming adapter are in flight at once and their
\* sequences are consumed in any interleaving.  The transport serves every
\* request and marks each chunk with the call it belongs to.
PlainArgs == {[messages |-> <<"user">>, tools |-> NoTools, tool_choice |-> None]}

\* the chunks of the stream of call c: each carries the text "c"
OwnChunks(c) == {[choices |-> <<[hasDelta |-> TRUE, content |-> Str(<<ToString(c)>>)]>>]}

ConcurrentCall(c) == Issue(c, PlainArgs)

ConcurrentReceive(c) == ReceiveChunkFrom(c, OwnChunks(c))

InitConc == Init /\ stream

NextConc ==
    \/ \E c \in Calls : ConcurrentCall(c)
    \/ \E c \in Calls : CreateReturnsStream(c)
    \/ \E c \in Calls : Pull(c)
    \/ \E c \in Calls : PullAfterFinal(c)
    \/ \E c \in Calls : ConcurrentReceive(c)
    \/ \E c \in Calls : ReceiveEnd(c)

SpecConc == InitConc /\ [][NextConc]_vars

\* ------------------------------------------------------------- a consumer that keeps pulling
\* A streaming adapter whose requests are served; the consumer of a sequence
\* iterates it with `async for`, so it keeps asking for the next value, and the
\* transport ends every stream it does not fail.
LiveCall(c) ==
    /\ \A d \in Calls : pc[d] = "idle"
    /\ Issue(c, PlainArgs)

InitLive == Init /\ stream

NextLive ==
    \/ \E c \in Calls : LiveCall(c)
    \/ \E c \in Calls : CreateReturnsStream(c)
    \/ \E c \in Calls : Pull(c)
    \/ \E c \in Calls : PullAfterFinal(c)
    \/ \E c \in Calls : PullExhausted(c)
    \/ \E c \in Calls : ReceiveChunk(c)
    \/ \E c \in Calls : ReceiveEnd(c)
    \/ \E c \in Calls : ReceiveFails(c)
    \/ \E c \in Calls : Discard(c)

Fairness ==
    \A c \in Calls :
        /\ WF_vars(Pull(c))
        /\ WF_vars(PullAfterFinal(c))
        /\ WF_vars(ReceiveEnd(c))

SpecLive == InitLive /\ [][NextLive]_vars /\ Fairness

\* ------------------------------------------------------------- entry functions
\* The entry functions of the example and test scripts, one run of one of them
\* at a time. First main() of examples/agent_browser/main_customer.py and
\* main() of examples/agent_deep_research/main.py: connect a tool-server
\* client, build an agent, run it, and close the client in a finally block.

\* an awaited call made at position `from`: it is recorded, then returns (the
\* function goes on at `to`), raises an Exception (the except clause runs) or
\* raises an exception no except clause matches (the finally block runs)
Await(from, event, to) ==
    /\ spc = from
    /\ trace' = Append(trace, event)
    /\ \E o \in Outcomes :
         /\ exc' = (IF o = "ok" THEN "" ELSE o)
         /\ spc' = (CASE o = "ok" -> to
                      [] o = "Exception" -> "except"
                      [] OTHER -> "finally")

\* main_customer.py, lines 31-38: the client is built and the try block entered
CustomerStart ==
    /\ script = "main_customer"
    /\ spc = "notStarted"
    /\ spc' = "connect"
    /\ tried' = TRUE
    /\ UNCHANGED <<script, config, exc, turns, trace, escaped>>
    /\ UNCHANGED <<cleanupVars, task>>
    /\ UNCHANGED adapterVars
    /\ UNCHANGED env

\* main_customer.py, line 40
CustomerConnect ==
    /\ script = "main_customer"
    /\ Await("connect", <<"connect", "">>, "register")
    /\ UNCHANGED <<script, config, tried, turns, escaped>>
    /\ UNCHANGED <<cleanupVars, task>>
    /\ UNCHANGED adapterVars
    /\ UNCHANGED env

\* main_customer.py, line 41
CustomerRegister ==
    /\ script = "main_customer"
    /\ Await("register", <<"register", "">>, "config")
    /\ UNCHANGED <<script, config, tried, turns, escaped>>
    /\ UNCHANGED <<cleanupVars, task>>
    /\ UNCHANGED adapterVars
    /\ UNCHANGED env

\* main_customer.py, lines 44-67: the configuration is read and checked, the
\* agent and the user are built
CustomerConfig ==
    /\ script = "main_customer"
    /\ spc = "config"
    /\ IF ~config.api_key \/ ~config.base_url
       THEN /\ exc' = "Exception"
            /\ spc' = "except"
       ELSE /\ exc' = ""
            /\ spc' = "user"
    /\ trace' = Append(trace, <<"config", IF ~config.api_key \/ ~config.base_url
                                           THEN "missing" ELSE "present">>)
    /\ UNCHANGED <<script, config, tried, turns, escaped>>
    /\ UNCHANGED <<cleanupVars, task>>
    /\ UNCHANGED adapterVars
    /\ UNCHANGED env

\* main_customer.py, lines 71-73: the user's turn; "exit" leaves the loop and
\* the try block
CustomerUser ==
    /\ script = "main_customer"
    /\ spc = "user"
    /\ \E text \in UserInputs :
         /\ ~LoopExits(script, text) => turns < MaxTurns
         /\ trace' = Append(trace, <<"user", text>>)
         /\ \E o \in Outcomes :
              /\ exc' = (IF o = "ok" THEN "" ELSE o)
              /\ spc' = (CASE o = "Exception" -> "except"
                           [] o = "BaseException" -> "finally"
                           [] OTHER -> IF LoopExits(script, text) THEN "finally" ELSE "agent")
    /\ UNCHANGED <<script, config, tried, turns, escaped>>
    /\ UNCHANGED <<cleanupVars, task>>
    /\ UNCHANGED adapterVars
    /\ UNCHANGED env

\* main_customer.py, line 74: the agent's turn
CustomerAgent ==
    /\ script = "main_customer"
    /\ Await("agent", <<"agent", "">>, "user")
    /\ turns' = turns + 1
    /\ UNCHANGED <<script, config, tried, escaped>>
    /\ UNCHANGED <<cleanupVars, task>>
    /\ UNCHANGED adapterVars
    /\ UNCHANGED env

\* main.py, lines 46-91: without npx the function returns before the client
\* exists; otherwise the client is built and the try block entered
MainStart ==
    /\ script = "main"
    /\ spc = "notStarted"
    /\ IF config.npx
       THEN spc' = "config" /\ tried' = TRUE
       ELSE spc' = "returned" /\ tried' = FALSE
    /\ UNCHANGED <<script, config, exc, turns, trace, escaped>>
    /\ UNCHANGED <<cleanupVars, task>>
    /\ UNCHANGED adapterVars
    /\ UNCHANGED env

\* main.py, lines 94-107
MainConfig ==
    /\ script = "main"
    /\ spc = "config"
    /\ IF ~config.api_key \/ ~config.base_url
       THEN /\ exc' = "Exception"
            /\ spc' = "except"
       ELSE /\ exc' = ""
            /\ spc' = "connect"
    /\ trace' = Append(trace, <<"config", IF ~config.api_key \/ ~config.base_url
                                           THEN "missing" ELSE "present">>)
    /\ UNCHANGED <<script, config, tried, turns, escaped>>
    /\ UNCHANGED <<cleanupVars, task>>
    /\ UNCHANGED adapterVars
    /\ UNCHANGED env

\* main.py, line 111
MainConnect ==
    /\ script = "main"
    /\ Await("connect", <<"connect", "">>, "agent")
    /\ UNCHANGED <<script, config, tried, turns, escaped>>
    /\ UNCHANGED <<cleanupVars, task>>
    /\ UNCHANGED adapterVars
    /\ UNCHANGED env

\* main.py, lines 114-146: the agent is built and answers the query
MainAgent ==
    /\ script = "main"
    /\ Await("agent", <<"agent", "">>, "finally")
    /\ turns' = turns + 1
    /\ UNCHANGED <<script, config, tried, escaped>>
    /\ UNCHANGED <<cleanupVars, task>>
    /\ UNCHANGED adapterVars
    /\ UNCHANGED env

\* the except clause: main_customer.py lines 76-78, main.py lines 148-152. It
\* reports the error; a report that itself raises leaves the clause with that
\* exception in flight. In both cases the finally block runs next.
HandleException ==
    /\ script # "test_custom_model"
    /\ spc = "except"
    /\ exc' \in {"", "Exception"}
    /\ spc' = "finally"
    /\ trace' = Append(trace, <<"report", "">>)
    /\ UNCHANGED <<script, config, tried, turns, escaped>>
    /\ UNCHANGED <<cleanupVars, task>>
    /\ UNCHANGED adapterVars
    /\ UNCHANGED env

\* a finally block without a handler around close()
LeavesCleanupUnguarded(o, q, r, caught, reports) ==
    IF o # "ok" THEN <<o, "close">>
    ELSE IF q # "ok" THEN <<q, "print">>
    ELSE <<"", "">>

\* what leaves a finally block in which close() did `o`, the print that follows
\* a successful close() did `q`, and the handler's report, if it has one and
\* runs, did `r`: <<exception, where it was raised>>, <<"", "">> when nothing.
\* `caught` are the outcomes the handler around close() catches.
LeavesCleanup(o, q, r, caught, reports) ==
    LET first == IF o # "ok" THEN <<o, "close">>
                 ELSE IF q # "ok" THEN <<q, "print">>
                 ELSE <<"", "">>
    IN  IF first[1] = "" THEN first
        ELSE IF first[1] \notin caught THEN first
        ELSE IF reports /\ r # "ok" THEN <<r, "print">>
        ELSE <<"", "">>

\* an attempt to close() the client, made at position `from`, with the rest of
\* the finally block. An exception that leaves the block leaves the function
\* in place of the one in flight; otherwise the one in flight, if any, leaves
\* the function at its end.
Close(from, caught, reports) ==
    /\ spc = from
    /\ trace' = Append(trace, <<"close", "">>)
    /\ \E o, q, r \in Outcomes :
         LET left == LeavesCleanup(o, q, r, caught, reports)
         IN  /\ closed' = o
             /\ IF left[1] = ""
                THEN /\ escaped' = exc
                     /\ escaped_from' = (IF exc = "" THEN "" ELSE "try")
                ELSE /\ escaped' = left[1]
                     /\ escaped_from' = left[2]
    /\ exc' = ""
    /\ spc' = "returned"
    /\ UNCHANGED <<script, config, tried, turns, task>>
    /\ UNCHANGED adapterVars
    /\ UNCHANGED env

\* main_customer.py, lines 79-86: close() is the first statement of the
\* finally block
CustomerClose ==
    /\ script = "main_customer"
    /\ Close("finally", {"Exception"}, TRUE)

\* main.py, lines 153-155 and 158-160: the finally block first prints that it
\* is about to close the client. A print that raises an Exception (standard
\* output no longer writable) is caught by the `except Exception` of line 158,
\* which skips line 156; one that raises anything else leaves the function.
MainAnnounceClose ==
    /\ script = "main"
    /\ spc = "finally"
    /\ \E o \in Outcomes :
         CASE o = "ok" ->
                /\ spc' = "close"
                /\ UNCHANGED <<exc, escaped, escaped_from>>
           [] o = "Exception" ->
                /\ spc' = "returned"
                /\ exc' = ""
                /\ \/ escaped' = exc /\ escaped_from' = (IF exc = "" THEN "" ELSE "try")
                   \/ escaped' = "Exception" /\ escaped_from' = "print"
           [] OTHER ->
                /\ spc' = "returned"
                /\ exc' = ""
                /\ escaped' = o
                /\ escaped_from' = "print"
    /\ UNCHANGED <<script, config, tried, turns, trace, closed, task>>
    /\ UNCHANGED adapterVars
    /\ UNCHANGED env

\* main.py, lines 156-160
MainClose ==
    /\ script = "main"
    /\ Close("close", {"Exception"}, TRUE)

\* main_fixed.py, lines 38-65: without npx, or when the client cannot be built,
\* the function returns; missing configuration raises ValueError before the
\* try block of line 65; otherwise that try block is entered
FixedStart ==
    /\ script = "main_fixed"
    /\ spc = "notStarted"
    /\ \/ /\ ~config.npx
          /\ spc' = "returned"
          /\ UNCHANGED <<tried, escaped, escaped_from>>
       \/ /\ config.npx
          /\ \E o \in {"ok", "Exception"} :
               IF o = "Exception"
               THEN /\ spc' = "returned"
                    /\ UNCHANGED <<tried, escaped, escaped_from>>
               ELSE IF ~config.api_key \/ ~config.base_url
               THEN /\ spc' = "returned"
                    /\ escaped' = "Exception"
                    /\ escaped_from' = "check"
                    /\ UNCHANGED tried
               ELSE /\ spc' = "connect"
                    /\ tried' = TRUE
                    /\ UNCHANGED <<escaped, escaped_from>>
    /\ UNCHANGED <<script, config, exc, turns, trace, closed, task>>
    /\ UNCHANGED adapterVars
    /\ UNCHANGED env

\* main_fixed.py, line 72
FixedConnect ==
    /\ script = "main_fixed"
    /\ Await("connect", <<"connect", "">>, "agent")
    /\ UNCHANGED <<script, config, tried, turns, escaped>>
    /\ UNCHANGED <<cleanupVars, task>>
    /\ UNCHANGED adapterVars
    /\ UNCHANGED env

\* main_fixed.py, lines 76-115: the agent is built and answers the query
FixedAgent ==
    /\ script = "main_fixed"
    /\ Await("agent", <<"agent", "">>, "finally")
    /\ turns' = turns + 1
    /\ UNCHANGED <<script, config, tried, escaped>>
    /\ UNCHANGED <<cleanupVars, task>>
    /\ UNCHANGED adapterVars
    /\ UNCHANGED env

\* main_fixed.py, lines 121-127
FixedClose ==
    /\ script = "main_fixed"
    /\ Close("finally", {"Exception"}, FALSE)

\* main_verbose.py, lines 37-54: the client is built and the try block entered
VerboseStart ==
    /\ script = "main_verbose"
    /\ spc = "notStarted"
    /\ spc' = "connect"
    /\ tried' = TRUE
    /\ UNCHANGED <<script, config, exc, turns, trace, escaped>>
    /\ UNCHANGED <<cleanupVars, task>>
    /\ UNCHANGED adapterVars
    /\ UNCHANGED env

\* main_verbose.py, line 56
VerboseConnect ==
    /\ script = "main_verbose"
    /\ Await("connect", <<"connect", "">>, "config")
    /\ UNCHANGED <<script, config, tried, turns, escaped>>
    /\ UNCHANGED <<cleanupVars, task>>
    /\ UNCHANGED adapterVars
    /\ UNCHANGED env

\* main_verbose.py, lines 60-67
VerboseConfig ==
    /\ script = "main_verbose"
    /\ spc = "config"
    /\ IF ~config.api_key \/ ~config.base_url
       THEN /\ exc' = "Exception"
            /\ spc' = "except"
       ELSE /\ exc' = ""
            /\ spc' = "agent"
    /\ trace' = Append(trace, <<"config", IF ~config.api_key \/ ~config.base_url
                                           THEN "missing" ELSE "present">>)
    /\ UNCHANGED <<script, config, tried, turns, escaped>>
    /\ UNCHANGED <<cleanupVars, task>>
    /\ UNCHANGED adapterVars
    /\ UNCHANGED env

\* main_verbose.py, lines 73-113: the agent is built and answers the query
VerboseAgent ==
    /\ script = "main_verbose"
    /\ Await("agent", <<"agent", "">>, "finally")
    /\ turns' = turns + 1
    /\ UNCHANGED <<script, config, tried, escaped>>
    /\ UNCHANGED <<cleanupVars, task>>
    /\ UNCHANGED adapterVars
    /\ UNCHANGED env

\* main_verbose.py, lines 118-119: the finally block prints before it closes,
\* outside any try: a print that raises leaves the function
VerboseAnnounceClose ==
    /\ script = "main_verbose"
    /\ spc = "finally"
    /\ \E o \in Outcomes :
         IF o = "ok"
         THEN /\ spc' = "close"
              /\ UNCHANGED <<exc, escaped, escaped_from>>
         ELSE /\ spc' = "returned"
              /\ exc' = ""
              /\ escaped' = o
              /\ escaped_from' = "print"
    /\ UNCHANGED <<script, config, tried, turns, trace, closed, task>>
    /\ UNCHANGED adapterVars
    /\ UNCHANGED env

\* main_verbose.py, lines 120-121: close() is not inside a try
VerboseClose ==
    /\ script = "main_verbose"
    /\ Close("close", {}, FALSE)

\* main_improved.py (ImprovedResearchAgent, main_improved) and
\* main_compatible.py (CompatibleDeepResearchAgent, main_compatible): the
\* agent's constructor starts _register_search_tools as a background task with
\* asyncio.create_task and keeps no reference to it; the entry function never
\* awaits it. The task runs only while the entry function is suspended in an
\* await.

\* main_improved.py lines 87-104, main_compatible.py lines 74-89: the client is
\* built; missing or empty configuration raises ValueError before the try
\* block; otherwise the try block is entered
BackgroundStart(s) ==
    /\ script = s
    /\ spc = "notStarted"
    /\ IF ~config.api_key \/ ~config.base_url
       THEN /\ spc' = "returned"
            /\ escaped' = "Exception"
            /\ escaped_from' = "check"
            /\ trace' = Append(trace, <<"client", "">>)
            /\ UNCHANGED tried
       ELSE /\ spc' = "construct"
            /\ tried' = TRUE
            /\ trace' = trace \o <<(<<"client", "">>), (<<"try", "">>)>>
            /\ UNCHANGED <<escaped, escaped_from>>
    /\ UNCHANGED <<script, config, exc, turns, closed, task>>
    /\ UNCHANGED adapterVars
    /\ UNCHANGED env

\* main_improved.py lines 110-129 with 30-63, main_compatible.py lines 96-113
\* with 29-55: the constructor raises, or ends by creating the task
BackgroundConstruct(s) ==
    /\ script = s
    /\ spc = "construct"
    /\ \E o \in {"ok", "Exception"} :
         IF o = "ok"
         THEN /\ task' = "created"
              /\ spc' = "agent"
              /\ exc' = ""
         ELSE /\ spc' = "except"
              /\ exc' = o
              /\ UNCHANGED task
    /\ UNCHANGED <<script, config, tried, turns, trace, escaped, cleanupVars>>
    /\ UNCHANGED adapterVars
    /\ UNCHANGED env

\* main_improved.py line 140, main_compatible.py line 122: agent(msg) runs up
\* to its first model call, recorded with the task's position at that moment,
\* or raises before it
BackgroundAgentCallsModel(s) ==
    /\ script = s
    /\ spc = "agent"
    /\ \E o \in Outcomes :
         IF o = "ok"
         THEN /\ trace' = Append(trace, <<"model_call", task>>)
              /\ spc' = "awaitModel"
              /\ exc' = ""
         ELSE /\ spc' = (IF o = "Exception" THEN "except" ELSE "finally")
              /\ exc' = o
              /\ UNCHANGED trace
    /\ UNCHANGED <<script, config, tried, turns, escaped, cleanupVars, task>>
    /\ UNCHANGED adapterVars
    /\ UNCHANGED env

\* agent(msg) returns its answer or raises
BackgroundAgentAnswers(s) ==
    /\ script = s
    /\ Await("awaitModel", <<"agent", "">>, "finally")
    /\ turns' = turns + 1
    /\ UNCHANGED <<script, config, tried, escaped, cleanupVars, task>>
    /\ UNCHANGED adapterVars
    /\ UNCHANGED env

\* main_improved.py line 156, main_compatible.py line 136: close() is called
\* and the entry function is suspended in it
BackgroundCloseBegins(s) ==
    /\ script = s
    /\ spc = "finally"
    /\ spc' = "closing"
    /\ trace' = Append(trace, <<"close", task>>)
    /\ UNCHANGED <<script, config, tried, exc, turns, escaped, cleanupVars, task>>
    /\ UNCHANGED adapterVars
    /\ UNCHANGED env

\* the entry function is suspended in an await, so the event loop may run the
\* task. The task is followed in the runs of main_improved and main_compatible
\* themselves, not in the runs that interactive_mode starts.
Suspended == script \in BackgroundScripts /\ spc \in {"agent", "awaitModel", "closing"}

\* _register_search_tools, main_improved.py line 68, main_compatible.py line
\* 60: connect() is called
RegisterConnectBegins ==
    /\ Suspended
    /\ task = "created"
    /\ task' = "connecting"
    /\ trace' = Append(trace, <<"connect", spc>>)
    /\ UNCHANGED <<script, config, spc, tried, exc, turns, escaped, cleanupVars>>
    /\ UNCHANGED adapterVars
    /\ UNCHANGED env

\* connect() returns or raises an Exception, which the task reports
RegisterConnectEnds ==
    /\ Suspended
    /\ task = "connecting"
    /\ task' \in {"registering", "failed"}
    /\ UNCHANGED <<script, config, spc, tried, exc, turns, trace, escaped, cleanupVars>>
    /\ UNCHANGED adapterVars
    /\ UNCHANGED env

\* main_improved.py lines 69-72, main_compatible.py lines 61-64
RegisterTools ==
    /\ Suspended
    /\ task = "registering"
    /\ task' \in {"done", "failed"}
    /\ trace' = Append(trace, <<"register", spc>>)
    /\ UNCHANGED <<script, config, spc, tried, exc, turns, escaped, cleanupVars>>
    /\ UNCHANGED adapterVars
    /\ UNCHANGED env

\* asyncio.run (main_improved.py line 205, main_compatible.py line 201)
\* cancels the task when the entry function has ended before it
RegisterCancelled ==
    /\ script \in BackgroundScripts
    /\ spc = "returned"
    /\ task \in {"created", "connecting", "registering"}
    /\ task' = "cancelled"
    /\ UNCHANGED <<script, config, spc, tried, exc, turns, trace, escaped, cleanupVars>>
    /\ UNCHANGED adapterVars
    /\ UNCHANGED env

ImprovedStart == BackgroundStart("main_improved")

ImprovedConstruct == BackgroundConstruct("main_improved")

ImprovedAgentCallsModel == BackgroundAgentCallsModel("main_improved")

ImprovedAgentAnswers == BackgroundAgentAnswers("main_improved")

ImprovedCloseBegins == BackgroundCloseBegins("main_improved")

\* main_improved.py, lines 155-160
ImprovedClose ==
    /\ script = "main_improved"
    /\ Close("closing", {"Exception"}, FALSE)

CompatibleStart == BackgroundStart("main_compatible")

CompatibleConstruct == BackgroundConstruct("main_compatible")

CompatibleAgentCallsModel == BackgroundAgentCallsModel("main_compatible")

CompatibleAgentAnswers == BackgroundAgentAnswers("main_compatible")

CompatibleCloseBegins == BackgroundCloseBegins("main_compatible")

\* main_compatible.py, lines 135-139: a bare except
CompatibleClose ==
    /\ script = "main_compatible"
    /\ Close("closing", {"Exception", "BaseException"}, FALSE)

\* interactive_custom_model (custom_model_example.py, lines 301-361) and
\* interactive_chat (test_custom_model.py, lines 119-159): a conversation loop
\* inside `try ... except Exception`, without a finally block

\* custom_model_example.py lines 334-350, test_custom_model.py lines 129-147:
\* the try block is entered, the model, the agent and the user are built
InteractiveStart(s) ==
    /\ script = s
    /\ spc = "notStarted"
    /\ tried' = TRUE
    /\ \E o \in {"ok", "Exception"} :
         /\ exc' = (IF o = "ok" THEN "" ELSE o)
         /\ spc' = (IF o = "ok" THEN "user" ELSE "except")
    /\ UNCHANGED <<script, config, turns, trace, escaped, cleanupVars, task>>
    /\ UNCHANGED adapterVars
    /\ UNCHANGED env

\* custom_model_example.py lines 353-356, test_custom_model.py lines 150-155:
\* the user's turn
InteractiveUser(s) ==
    /\ script = s
    /\ spc = "user"
    /\ \E text \in UserInputs :
         /\ ~LoopExits(script, text) => turns < MaxTurns
         /\ trace' = Append(trace, <<"user", text>>)
         /\ \E o \in Outcomes :
              /\ exc' = (IF o = "ok" THEN "" ELSE o)
              /\ spc' = (CASE o = "Exception" -> "except"
                           [] o = "BaseException" -> "finally"
                           [] OTHER -> IF LoopExits(script, text) THEN "finally" ELSE "agent")
    /\ UNCHANGED <<script, config, tried, turns, escaped, cleanupVars, task>>
    /\ UNCHANGED adapterVars
    /\ UNCHANGED env

\* custom_model_example.py line 357, test_custom_model.py line 156: the agent's
\* turn
InteractiveAgent(s) ==
    /\ script = s
    /\ Await("agent", <<"agent", "">>, "user")
    /\ turns' = turns + 1
    /\ UNCHANGED <<script, config, tried, escaped, cleanupVars, task>>
    /\ UNCHANGED adapterVars
    /\ UNCHANGED env

\* the function ends after the loop or the except clause (there is nothing to
\* clean up); an exception in flight leaves it
InteractiveReturns(s) ==
    /\ script = s
    /\ spc = "finally"
    /\ spc' = "returned"
    /\ escaped' = exc
    /\ escaped_from' = (IF exc = "" THEN "" ELSE "try")
    /\ exc' = ""
    /\ UNCHANGED <<script, config, tried, turns, trace, closed, task>>
    /\ UNCHANGED adapterVars
    /\ UNCHANGED env

CustomModelStart == InteractiveStart("interactive_custom_model")

CustomModelUser == InteractiveUser("interactive_custom_model")

CustomModelAgent == InteractiveAgent("interactive_custom_model")

CustomModelReturns == InteractiveReturns("interactive_custom_model")

\* create_custom_model as test_custom_model and interactive_chat call it inside
\* their try block (test_custom_model.py lines 73 and 130): it raises the
\* ValueError, or constructs the model, which may itself raise (an unparsable
\* CUSTOM_MODEL_TEMPERATURE), and the caller goes on at `to`
CallsCreateCustomModel(s, to) ==
    /\ script = s
    /\ spc = "notStarted"
    /\ tried' = TRUE
    /\ IF CreateCustomModel(env) # ""
       THEN /\ trace' = Append(trace, <<"raise", CreateCustomModel(env)>>)
            /\ exc' = "Exception"
            /\ spc' = "except"
       ELSE /\ trace' = Append(trace, <<"construct", "">>)
            /\ \E o \in {"ok", "Exception"} :
                 /\ exc' = (IF o = "ok" THEN "" ELSE o)
                 /\ spc' = (IF o = "ok" THEN to ELSE "except")
    /\ UNCHANGED <<script, config, turns, escaped, cleanupVars, task>>
    /\ UNCHANGED adapterVars
    /\ UNCHANGED env

\* test_custom_model.py, lines 129-147
ChatStart == CallsCreateCustomModel("interactive_chat", "user")

\* test_custom_model (test_custom_model.py, lines 57-116)

\* lines 71-83
TestModelStart == CallsCreateCustomModel("test_custom_model", "agent")

\* lines 92-106: the agent is asked, the answer printed and True returned
TestModelAgent ==
    /\ script = "test_custom_model"
    /\ spc = "agent"
    /\ \E o \in Outcomes :
         /\ exc' = (IF o = "ok" THEN "" ELSE o)
         /\ spc' = (CASE o = "ok" -> "returned"
                      [] o = "Exception" -> "except"
                      [] OTHER -> "finally")
         /\ trace' = (IF o = "ok"
                      THEN trace \o <<(<<"agent", "">>), (<<"return", "True">>)>>
                      ELSE Append(trace, <<"agent", "">>))
    /\ turns' = turns + 1
    /\ UNCHANGED <<script, config, tried, escaped, cleanupVars, task>>
    /\ UNCHANGED adapterVars
    /\ UNCHANGED env

\* lines 108-116: the error is reported and False returned; a report that
\* itself raises leaves the function
TestModelHandleException ==
    /\ script = "test_custom_model"
    /\ spc = "except"
    /\ spc' = "returned"
    /\ exc' = ""
    /\ \/ /\ trace' = trace \o <<(<<"report", "">>), (<<"return", "False">>)>>
          /\ UNCHANGED <<escaped, escaped_from>>
       \/ /\ trace' = Append(trace, <<"report", "">>)
          /\ escaped' = "Exception"
          /\ escaped_from' = "print"
    /\ UNCHANGED <<script, config, tried, turns, closed, task>>
    /\ UNCHANGED adapterVars
    /\ UNCHANGED env

TestModelReturns == InteractiveReturns("test_custom_model")

ChatUser == InteractiveUser("interactive_chat")

ChatAgent == InteractiveAgent("interactive_chat")

ChatReturns == InteractiveReturns("interactive_chat")

\* test_custom_models (custom_model_example.py, lines 248-298): a for loop over
\* model_configs whose body is `try ... except Exception: ...; continue`

\* the configurations whose factory has been called
Created == SelectSeq(trace, LAMBDA e : e[1] = "create")

\* custom_model_example.py, lines 251-266: agentscope.init, the dictionary
TestModelsStart ==
    /\ script = "test_custom_models"
    /\ spc = "notStarted"
    /\ spc' = "loop"
    /\ UNCHANGED <<script, config, tried, exc, turns, trace, escaped, cleanupVars, task>>
    /\ UNCHANGED adapterVars
    /\ UNCHANGED env

\* custom_model_example.py, lines 268-271: the next configuration's banner is
\* printed outside the try block; a print that raises leaves the function
TestModelsBannerFails ==
    /\ script = "test_custom_models"
    /\ spc = "loop"
    /\ Len(Created) < Len(ModelConfigs)
    /\ spc' = "returned"
    /\ escaped' = "Exception"
    /\ escaped_from' = "print"
    /\ UNCHANGED <<script, config, tried, exc, turns, trace, closed, task>>
    /\ UNCHANGED adapterVars
    /\ UNCHANGED env

\* custom_model_example.py, lines 268-275: the banner is printed and the next
\* configuration's factory called inside the try block; the factory raises
\* (a missing key, an unparsable number) or returns a model
TestModelsCreate ==
    /\ script = "test_custom_models"
    /\ spc = "loop"
    /\ Len(Created) < Len(ModelConfigs)
    /\ trace' = Append(trace, <<"create", ModelConfigs[Len(Created) + 1]>>)
    /\ tried' = TRUE
    /\ \E o \in {"ok", "Exception"} :
         /\ exc' = (IF o = "ok" THEN "" ELSE o)
         /\ spc' = (IF o = "ok" THEN "use" ELSE "exceptInLoop")
    /\ UNCHANGED <<script, config, turns, escaped, cleanupVars, task>>
    /\ UNCHANGED adapterVars
    /\ UNCHANGED env

\* custom_model_example.py, lines 277-294: the agent is built and asked
TestModelsUse ==
    /\ script = "test_custom_models"
    /\ spc = "use"
    /\ trace' = Append(trace, <<"agent", ModelConfigs[Len(Created)]>>)
    /\ \E o \in Outcomes :
         /\ exc' = (IF o = "ok" THEN "" ELSE o)
         /\ spc' = (CASE o = "ok" -> "loop"
                      [] o = "Exception" -> "exceptInLoop"
                      [] OTHER -> "finally")
    /\ UNCHANGED <<script, config, tried, turns, escaped, cleanupVars, task>>
    /\ UNCHANGED adapterVars
    /\ UNCHANGED env

\* an except clause that gives up the remaining configurations
TestModelsHandleExceptionBreaks ==
    /\ script = "test_custom_models"
    /\ spc = "exceptInLoop"
    /\ exc' = ""
    /\ spc' = "finally"
    /\ UNCHANGED <<script, config, tried, turns, trace, escaped, cleanupVars, task>>
    /\ UNCHANGED adapterVars
    /\ UNCHANGED env

\* custom_model_example.py, lines 296-298: the error is reported and the loop
\* continues; a report that itself raises leaves the function
TestModelsHandleException ==
    /\ script = "test_custom_models"
    /\ spc = "exceptInLoop"
    /\ \/ /\ exc' = ""
          /\ spc' = "loop"
          /\ UNCHANGED <<escaped, escaped_from>>
       \/ /\ exc' = ""
          /\ spc' = "returned"
          /\ escaped' = "Exception"
          /\ escaped_from' = "print"
    /\ UNCHANGED <<script, config, tried, turns, trace, closed, task>>
    /\ UNCHANGED adapterVars
    /\ UNCHANGED env

\* the loop is exhausted and the function returns
TestModelsDone ==
    /\ script = "test_custom_models"
    /\ spc = "loop"
    /\ Len(Created) = Len(ModelConfigs)
    /\ spc' = "finally"
    /\ UNCHANGED <<script, config, tried, exc, turns, trace, escaped, cleanupVars, task>>
    /\ UNCHANGED adapterVars
    /\ UNCHANGED env

TestModelsReturns == InteractiveReturns("test_custom_models")

\* interactive_mode (main_improved.py, lines 163-182): a prompt loop that runs
\* main_improved for every topic

\* the texts typed at the prompt so far
Prompts == SelectSeq(trace, LAMBDA e : e[1] = "prompt")

\* the topics asked so far
Queries == SelectSeq(trace, LAMBDA e : e[1] = "prompt" /\ Lower(Strip(e[2])) \notin QuitWords \cup {""})

\* lines 169-178: input() raises (end of input, an interrupt), which leaves the
\* function; or the user's text ends the loop, is empty, or is a topic for
\* which main_improved is called
InteractiveModePrompt ==
    /\ script = "interactive_mode"
    /\ spc = "prompt"
    /\ \/ /\ trace' = Append(trace, <<"input_raises", "">>)
          /\ spc' = "ended"
          /\ escaped' \in {"Exception", "BaseException"}
          /\ escaped_from' = "input"
          /\ UNCHANGED <<tried, exc, closed>>
       \/ \E text \in QueryInputs :
            LET query == Strip(text)
            IN  /\ trace' = Append(trace, <<"prompt", text>>)
                /\ IF Lower(query) \in QuitWords
                   THEN /\ spc' = "ended"
                        /\ UNCHANGED <<tried, exc, escaped, escaped_from, closed>>
                   ELSE IF query = ""
                   THEN /\ Len(Prompts) < MaxQueries
                        /\ spc' = "prompt"
                        /\ UNCHANGED <<tried, exc, escaped, escaped_from, closed>>
                   ELSE /\ Len(Prompts) < MaxQueries
                        /\ spc' = "notStarted"
                        /\ tried' = FALSE
                        /\ exc' = ""
                        /\ escaped' = ""
                        /\ escaped_from' = ""
                        /\ closed' = ""
    /\ UNCHANGED <<script, config, turns, task>>
    /\ UNCHANGED adapterVars
    /\ UNCHANGED env

\* an interactive_mode without handlers around main_improved
InteractiveModeResumesUnguarded ==
    /\ script = "interactive_mode"
    /\ spc = "returned"
    /\ spc' = (IF escaped = "" THEN "prompt" ELSE "ended")
    /\ UNCHANGED <<script, config, tried, exc, turns, trace, escaped, cleanupVars, task>>
    /\ UNCHANGED adapterVars
    /\ UNCHANGED env

\* lines 177-182: main_improved has returned or raised. An Exception, and a
\* KeyboardInterrupt, is reported and the loop goes on; any other exception,
\* and one raised by the report itself, leaves the function.
InteractiveModeResumes ==
    /\ script = "interactive_mode"
    /\ spc = "returned"
    /\ \/ /\ spc' = "prompt"
          /\ escaped' = ""
          /\ escaped_from' = ""
       \/ /\ escaped = "BaseException"
          /\ spc' = "ended"
          /\ UNCHANGED <<escaped, escaped_from>>
       \/ /\ escaped # ""
          /\ spc' = "ended"
          /\ escaped' = "Exception"
          /\ escaped_from' = "print"
    /\ UNCHANGED <<script, config, tried, exc, turns, trace, closed, task>>
    /\ UNCHANGED adapterVars
    /\ UNCHANGED env

InteractiveModeStart == BackgroundStart("interactive_mode")

InteractiveModeConstruct == BackgroundConstruct("interactive_mode")

InteractiveModeAgentCallsModel == BackgroundAgentCallsModel("interactive_mode")

InteractiveModeAgentAnswers == BackgroundAgentAnswers("interactive_mode")

InteractiveModeCloseBegins == BackgroundCloseBegins("interactive_mode")

InteractiveModeClose ==
    /\ script = "interactive_mode"
    /\ Close("closing", {"Exception"}, FALSE)

InitMain ==
    /\ AdapterInit
    /\ ~stream
    /\ script \in Scripts
    /\ config \in ConfigSet
    /\ spc = (IF script = "interactive_mode" THEN "prompt" ELSE "notStarted")
    /\ tried = FALSE
    /\ exc = ""
    /\ turns = 0
    /\ trace = <<>>
    /\ escaped = ""
    /\ closed = ""
    /\ escaped_from = ""
    /\ task = "none"
    /\ env \in (IF script \in {"test_custom_model", "interactive_chat"} THEN EnvSet ELSE {NoEnv})

NextMain ==
    \/ CustomerStart
    \/ CustomerConnect
    \/ CustomerRegister
    \/ CustomerConfig
    \/ CustomerUser
    \/ CustomerAgent
    \/ MainStart
    \/ MainConfig
    \/ MainConnect
    \/ MainAgent
    \/ HandleException
    \/ CustomerClose
    \/ MainAnnounceClose
    \/ MainClose
    \/ FixedStart
    \/ FixedConnect
    \/ FixedAgent
    \/ FixedClose
    \/ VerboseStart
    \/ VerboseConnect
    \/ VerboseConfig
    \/ VerboseAgent
    \/ VerboseAnnounceClose
    \/ VerboseClose
    \/ ImprovedStart
    \/ ImprovedConstruct
    \/ ImprovedAgentCallsModel
    \/ ImprovedAgentAnswers
    \/ ImprovedCloseBegins
    \/ ImprovedClose
    \/ CompatibleStart
    \/ CompatibleConstruct
    \/ CompatibleAgentCallsModel
    \/ CompatibleAgentAnswers
    \/ CompatibleCloseBegins
    \/ CompatibleClose
    \/ RegisterConnectBegins
    \/ RegisterConnectEnds
    \/ RegisterTools
    \/ RegisterCancelled
    \/ CustomModelStart
    \/ CustomModelUser
    \/ CustomModelAgent
    \/ CustomModelReturns
    \/ ChatStart
    \/ ChatUser
    \/ ChatAgent
    \/ ChatReturns
    \/ TestModelsStart
    \/ TestModelsBannerFails
    \/ TestModelsCreate
    \/ TestModelsUse
    \/ TestModelsHandleException
    \/ TestModelsDone
    \/ TestModelsReturns
    \/ TestModelStart
    \/ TestModelAgent
    \/ TestModelHandleException
    \/ TestModelReturns
    \/ InteractiveModePrompt
    \/ InteractiveModeStart
    \/ InteractiveModeConstruct
    \/ InteractiveModeAgentCallsModel
    \/ InteractiveModeAgentAnswers
    \/ InteractiveModeCloseBegins
    \/ InteractiveModeClose
    \/ InteractiveModeResumes

SpecMain == InitMain /\ [][NextMain]_vars

\* ------------------------------------------------------------- typing
TypeOK ==
    /\ stream \in BOOLEAN
    /\ now \in 0..MaxTime
    /\ \A c \in Calls :
         /\ pc[c] \in {"idle", "awaitCreate", "done", "genCreated", "awaitChunk",
                       "yielded", "yieldedFinal", "exhausted", "raised"}
         /\ start_time[c] \in 0..MaxTime
         /\ requests[c] \in Nat
         /\ result_kind[c] \in {"none", "single", "sequence"}
         /\ Len(received[c]) <= MaxChunks

\* ------------------------------------------------------------- reading responses
\* the text of a response: that of its text segment, empty when it has none
Text(r) == IF r.content = <<>> THEN <<>> ELSE r.content[1].text

IsPrefix(s, t) == Len(s) <= Len(t) /\ SubSeq(t, 1, Len(s)) = s

Last(s) == s[Len(s)]

\* a generator that ran to its end
Completed(c) == pc[c] \in {"yieldedFinal", "exhausted"}

\* the delta text a chunk carries, empty when it carries none
DeltaText(chunk) ==
    IF chunk.choices = <<>> THEN <<>>
    ELSE IF chunk.choices[1].content.isNone THEN <<>>
    ELSE chunk.choices[1].content.text

\* the chunks of a stream that carry non-empty text
TextChunks(chunks) == {i \in 1..Len(chunks) : DeltaText(chunks[i]) # <<>>}

RECURSIVE DeltaConcat(_)
\* the deltas of a stream concatenated in order
DeltaConcat(chunks) ==
    IF chunks = <<>> THEN <<>>
    ELSE DeltaConcat(SubSeq(chunks, 1, Len(chunks) - 1)) \o DeltaText(Last(chunks))

\* the non-streamed completions whose first choice holds the text t
CompletionsWithText(t) ==
    {[choices |-> <<[hasMessage |-> TRUE, content |-> first]>> \o rest, usage |-> u] :
        first \in {Str(t)} \cup (IF t = <<>> THEN {None} ELSE {}),
        rest \in SeqsUpTo(ChoiceSet, 1),
        u \in TransportUsageSet}

\* ------------------------------------------------------------- claims

\* C1: a call whose request raises, or whose completed response cannot be
\* mapped, returns normally: its result is one response whose content is exactly
\* one text segment describing the failure, with no usage record, and no
\* exception reaches the caller.
FailureBecomesContent ==
    \A c \in Calls :
        /\ error[c] # "" =>
            /\ pc[c] = "done"
            /\ raised[c] = ""
            /\ result_kind[c] = "single"
            /\ Len(produced[c]) = 1
            /\ Len(produced[c][1].content) = 1
            /\ produced[c][1].content[1].type = "text"
            /\ produced[c][1].content[1].text = <<FailPrefix, error[c]>>
            /\ ~produced[c][1].usage.present
        /\ (pc[c] = "done" /\ ~stream /\ ParseRaises(response[c])) =>
               error[c] = AttributeError
        /\ pc[c] \in {"idle", "awaitCreate", "done"} => raised[c] = ""

\* witness of C1: a call whose request failed has returned
FailedCallReturned ==
    \E c \in Calls : pc[c] = "done" /\ error[c] \in Errors /\ stream

\* C2 as stated: in streaming mode an error the transport raises while a chunk
\* is being received is never observed as an exception by the consumer of the
\* sequence.
ConsumerNeverSeesException ==
    \A c \in Calls : result_kind[c] = "sequence" => raised[c] \notin Errors

\* C3: a non-streaming call produces exactly one response value, whether the
\* request succeeds or fails, and nothing before it returns.
NonStreamingOneResponse ==
    ~stream =>
        \A c \in Calls :
            /\ raised[c] = ""
            /\ pc[c] \in {"idle", "awaitCreate", "done"}
            /\ pc[c] = "done" => Len(produced[c]) = 1 /\ result_kind[c] = "single"
            /\ pc[c] # "done" => produced[c] = <<>> /\ result_kind[c] = "none"

\* witness of C3: a non-streaming call returned the text of a completion
NonStreamingReturnedText ==
    \E c \in Calls :
        /\ ~stream
        /\ pc[c] = "done"
        /\ error[c] = ""
        /\ Text(produced[c][1]) # <<>>

\* C4: in a streaming sequence the text of each value is a prefix of the text
\* of the next one, the final value included.
StreamTextsArePrefixes ==
    \A c \in Calls :
        result_kind[c] = "sequence" =>
            \A i \in 1..(Len(produced[c]) - 1) :
                IsPrefix(Text(produced[c][i]), Text(produced[c][i + 1]))

\* witness of C4: a completed sequence of three values or more
LongSequenceCompleted ==
    \E c \in Calls :
        /\ Completed(c)
        /\ Len(produced[c]) >= 3
        /\ Len(Text(produced[c][1])) < Len(Text(produced[c][2]))

\* C5 as stated: every value after the first, the final one included, has text
\* strictly longer than its predecessor's.
EveryValueStrictlyLonger ==
    \A c \in Calls :
        result_kind[c] = "sequence" =>
            \A i \in 1..(Len(produced[c]) - 1) :
                /\ IsPrefix(Text(produced[c][i]), Text(produced[c][i + 1]))
                /\ Len(Text(produced[c][i])) < Len(Text(produced[c][i + 1]))

\* C5 amended: each value's text extends its predecessor's; the extension is
\* strict for every value that carries no usage record, and the final,
\* usage-carrying value repeats the text of its predecessor.
StrictUntilFinal ==
    \A c \in Calls :
        result_kind[c] = "sequence" =>
            \A i \in 1..(Len(produced[c]) - 1) :
                /\ IsPrefix(Text(produced[c][i]), Text(produced[c][i + 1]))
                /\ ~produced[c][i + 1].usage.present =>
                       Len(Text(produced[c][i])) < Len(Text(produced[c][i + 1]))
                /\ produced[c][i + 1].usage.present =>
                       Text(produced[c][i]) = Text(produced[c][i + 1])

\* witness of C5: a final value follows two intermediate values, the stream
\* having delivered a chunk with an empty delta
FinalRepeatsText ==
    \E c \in Calls :
        /\ pc[c] = "yieldedFinal"
        /\ Len(produced[c]) = 3
        /\ \E i \in 1..Len(received[c]) :
               received[c][i].choices # <<>> /\ received[c][i].choices[1].content = Str(<<>>)

\* C6: in a streaming sequence that ran to completion the final value carries
\* a usage record and no value before it does.
UsageOnLastOnly ==
    \A c \in Calls :
        /\ Completed(c) =>
               /\ produced[c] # <<>>
               /\ Last(produced[c]).usage.present
               /\ \A i \in 1..(Len(produced[c]) - 1) : ~produced[c][i].usage.present
        /\ (result_kind[c] = "sequence" /\ ~Completed(c)) =>
               \A i \in 1..Len(produced[c]) : ~produced[c][i].usage.present

\* witness of C6: a completed sequence with an intermediate value
CompletedWithIntermediate ==
    \E c \in Calls : pc[c] = "exhausted" /\ Len(produced[c]) = 2

\* C7 as stated: a streaming adapter returns a sequence on every call and a
\* non-streaming adapter a single response on every call.
KindDecidedByFlag ==
    \A c \in Calls :
        result_kind[c] # "none" => (result_kind[c] = "sequence" <=> stream)

\* C8 as stated: a completed streaming sequence has as many values as the
\* transport delivered chunks.
OneValuePerChunk ==
    \A c \in Calls : Completed(c) => Len(produced[c]) = Len(received[c])

\* C8 amended: the sequence has one value per delivered chunk that carries
\* non-empty text, and a completed sequence has one more, the final value.
OneValuePerTextChunkPlusFinal ==
    \A c \in Calls :
        result_kind[c] = "sequence" =>
            Len(produced[c]) = Cardinality(TextChunks(received[c]))
                                 + (IF Completed(c) THEN 1 ELSE 0)

\* witness of C8: a completed sequence whose stream had chunks with and
\* without text
MixedChunksCompleted ==
    \E c \in Calls :
        /\ Completed(c)
        /\ Len(received[c]) = 3
        /\ Cardinality(TextChunks(received[c])) = 1

\* C9: when the streamed deltas concatenate to the text of the first choice
\* of a non-streamed completion, the last value of the completed streaming
\* sequence has the text of the response _parse_response builds from that
\* completion.
StreamedTextEqualsNonStreamed ==
    \A c \in Calls :
        Completed(c) =>
            \A r \in CompletionsWithText(DeltaConcat(received[c])) :
                Text(Last(produced[c])) = Text(ParseResponse(start_time[c], r, now))

\* witness of C9: a completed sequence whose deltas make a text of two
\* characters, one chunk carrying no text
TwoDeltasCompleted ==
    \E c \in Calls :
        /\ pc[c] = "yieldedFinal"
        /\ Len(DeltaConcat(received[c])) = 2
        /\ Len(received[c]) = 3

\* C10: a call issues exactly one request to the transport, whether the
\* request succeeds or fails.
OneRequestPerCall ==
    \A c \in Calls :
        /\ pc[c] = "idle" => requests[c] = 0
        /\ pc[c] # "idle" => requests[c] = 1

\* witness of C10: a call whose request failed has returned after one request
FailedAfterOneRequest ==
    \E c \in Calls : pc[c] = "done" /\ error[c] \in Errors /\ requests[c] = 1 /\ ~stream

\* C11: calls on one adapter are independent under any interleaving: the text
\* of every value of a sequence is the concatenation of chunks of its own
\* request, and the accumulator of a call changes only in a step in which that
\* call receives a chunk.
CallsAreIndependent ==
    /\ [](\A c \in Calls :
            /\ accumulated_text[c] = DeltaConcat(received[c])
            /\ \A i \in 1..Len(produced[c]) :
                 \E k \in 0..Len(received[c]) :
                     Text(produced[c][i]) = DeltaConcat(SubSeq(received[c], 1, k)))
    /\ [][\A c \in Calls :
            accumulated_text'[c] # accumulated_text[c] => received'[c] # received[c]]_vars

\* witness of C11: two sequences are being consumed at once, each having
\* delivered values
TwoSequencesInterleaved ==
    /\ pc[1] = "yielded" /\ Len(produced[1]) = 2
    /\ pc[2] = "awaitChunk" /\ Len(produced[2]) = 1

\* a non-streaming call that returned the mapping of a completion
MappedCompletion(c) == ~stream /\ pc[c] = "done" /\ error[c] = ""

\* C12: in non-streaming mode the content of a successful call is one text
\* segment holding the text of the first choice when there is a first choice
\* and its text is non-empty, and no segment otherwise; later choices never
\* contribute.
FirstChoiceTextOnly ==
    \A c \in Calls :
        MappedCompletion(c) =>
            LET choices == response[c].choices
                content == produced[c][1].content
            IN IF choices # <<>> /\ ~choices[1].content.isNone
                  /\ choices[1].content.text # <<>>
               THEN content = <<[type |-> "text", text |-> choices[1].content.text]>>
               ELSE content = <<>>

\* witness of C12: the first choice has no text and the second has some
SecondChoiceIgnored ==
    \E c \in Calls :
        /\ MappedCompletion(c)
        /\ Len(response[c].choices) = 2
        /\ response[c].choices[1].content = Str(<<>>)
        /\ response[c].choices[2].content = Str(<<"a">>)
        /\ produced[c][1].content = <<>>

FinalProduced(c) ==
    /\ result_kind[c] = "sequence"
    /\ produced[c] # <<>>
    /\ Last(produced[c]).usage.present

\* C15: a streaming sequence is finite and cannot be restarted: when the
\* consumer keeps pulling and the stream ends, the sequence produces its final
\* value and is then exhausted (or the transport failed), and once the final
\* value is produced no further value is produced, however often the consumer
\* asks.
SequenceEndsForGood ==
    /\ \A c \in Calls :
         (pc[c] = "genCreated") ~>
             ((pc[c] = "exhausted" /\ FinalProduced(c)) \/ pc[c] = "raised")
    /\ [][\A c \in Calls :
            FinalProduced(c) =>
                \/ produced'[c] = produced[c] /\ received'[c] = received[c]
                \/ pc'[c] = "idle"]_vars

\* witness of C15: an exhausted sequence was asked for a further value
ExhaustedAskedAgain ==
    \E c \in Calls :
        /\ pc[c] = "exhausted"
        /\ Len(received[c]) >= 2
        /\ pulls[c] > Len(produced[c]) + 1

\* C16: streaming is pull-based: a chunk is received only while a request of
\* the consumer for the next value is outstanding, so none is received before
\* the first pull and none between the delivery of a value and the next pull.
ChunksOnlyWhenPulled ==
    [][\A c \in Calls :
          (received'[c] # received[c] /\ pc'[c] # "idle") =>
              pulls[c] > Len(produced[c])]_vars

\* witness of C16: the second pull was answered after two chunks
SecondPullAnswered ==
    \E c \in Calls :
        /\ pc[c] = "yielded"
        /\ pulls[c] = 2
        /\ Len(produced[c]) = 2
        /\ Len(received[c]) = 3

\* C17: a value delivered to the consumer of a streaming sequence is never
\* changed afterwards: while the call lasts, the arrival of later chunks and
\* values leaves its text and its usage as delivered.
DeliveredValuesFrozen ==
    [][\A c \in Calls :
          \A i \in 1..Len(produced[c]) :
              \/ pc'[c] = "idle"
              \/ /\ Len(produced'[c]) >= i
                 /\ produced'[c][i] = produced[c][i]]_vars

\* witness of C17: two values were delivered, the first still holding its
\* shorter text without usage
EarlierValueKept ==
    \E c \in Calls :
        /\ result_kind[c] = "sequence"
        /\ Len(produced[c]) = 3
        /\ Len(Text(produced[c][1])) = 1
        /\ Len(Text(produced[c][3])) = 2
        /\ ~produced[c][1].usage.present

\* C18: the request carries the caller's messages unchanged; it carries the
\* caller's tools list, unchanged, exactly when that list is given and
\* non-empty, and a tool_choice only when the caller supplied one, unchanged.
RequestPassesArgumentsThrough ==
    \A c \in Calls :
        pc[c] = "awaitCreate" =>
            /\ request[c].sent
            /\ request[c].messages = args[c].messages
            /\ request[c].stream = stream
            /\ request[c].hasTools <=> (~args[c].tools.isNone /\ Len(args[c].tools.list) > 0)
            /\ request[c].hasTools => request[c].tools = args[c].tools.list
            /\ request[c].hasToolChoice =>
                   /\ ~args[c].tool_choice.isNone
                   /\ request[c].tool_choice = args[c].tool_choice.text
            /\ (~args[c].tool_choice.isNone /\ Len(args[c].tool_choice.text) > 0) =>
                   request[c].hasToolChoice

\* witness of C18: a request with an empty tools list and a tool choice is in
\* flight
EmptyToolsRequestInFlight ==
    \E c \in Calls :
        /\ pc[c] = "awaitCreate"
        /\ ~args[c].tools.isNone
        /\ args[c].tools.list = <<>>
        /\ args[c].tool_choice = Str(<<"auto">>)
        /\ ~request[c].hasTools
        /\ request[c].hasToolChoice

\* C20: a streaming call whose stream delivers no chunk with non-empty text
\* produces exactly one value, with one empty text segment and the usage
\* record; a chunk without text produces no value and leaves the accumulated
\* text unchanged.
NoTextChunksOneEmptyValue ==
    /\ [](\A c \in Calls :
            (Completed(c) /\ TextChunks(received[c]) = {}) =>
                /\ Len(produced[c]) = 1
                /\ produced[c][1].content = <<[type |-> "text", text |-> <<>>]>>
                /\ produced[c][1].usage.present)
    /\ [][\A c \in Calls :
            (/\ Len(received'[c]) = Len(received[c]) + 1
             /\ DeltaText(Last(received'[c])) = <<>>) =>
                /\ produced'[c] = produced[c]
                /\ accumulated_text'[c] = accumulated_text[c]]_vars

\* witness of C20: a stream of three chunks without text has completed
TextlessStreamCompleted ==
    \E c \in Calls :
        /\ pc[c] = "yieldedFinal"
        /\ Len(received[c]) = 3
        /\ received[c][1].choices = <<>>
        /\ received[c][2].choices # <<>> /\ received[c][2].choices[1].content = None
        /\ received[c][3].choices # <<>> /\ received[c][3].choices[1].content = Str(<<>>)
        /\ Len(produced[c]) = 1

\* the calls of one kind in a trace
Events(kind) == {i \in 1..Len(trace) : trace[i][1] = kind}

\* C19 as stated: in main() of main_customer.py, and in main() of main.py once
\* its try block is entered, every path that leaves the function has made
\* exactly one attempt to close() the client, after all connect, registration,
\* user and agent activity; no attempt is made before the finally block.
ClientAlwaysClosedOnce ==
    script \in {"main_customer", "main"} =>
    /\ (spc = "returned" /\ tried) =>
           /\ Cardinality(Events("close")) = 1
           /\ trace[Len(trace)][1] = "close"
    /\ spc # "returned" => Events("close") = {}
    /\ ~tried => trace = <<>>

\* the entry functions whose finally block wraps close() in a try
GuardedScripts == {"main_customer", "main", "main_fixed", "main_compatible", "main_improved"}

\* C21: an Exception raised by close() never leaves main_customer, main,
\* main_fixed, main_compatible or main_improved: it is caught in the finally
\* block, and the function returns normally unless something other than
\* close() raised; in main_verbose it leaves the function.
CloseErrorContained ==
    (closed = "Exception" /\ script \in GuardedScripts \cup {"main_verbose"}) =>
        /\ spc = "returned"
        /\ script \in GuardedScripts =>
               /\ escaped_from # "close"
               /\ escaped_from = "" => escaped = ""
               /\ script \in {"main_fixed", "main_compatible", "main_improved"} =>
                      escaped_from \in {"", "try"}
        /\ script = "main_verbose" =>
               /\ escaped = "Exception"
               /\ escaped_from = "close"

\* witness of C21: close() raised in main_fixed after the agent had answered,
\* and the function returned normally
CloseErrorSwallowed ==
    /\ script = "main_fixed"
    /\ closed = "Exception"
    /\ turns = 1
    /\ spc = "returned"
    /\ escaped = ""

\* C22 as stated: main.py validates the configuration before it starts the tool
\* server, so with CUSTOM_OPENAI_API_KEY or CUSTOM_OPENAI_BASE_URL unset
\* connect() is never called and no agent runs, yet close() is called on the
\* never-connected client before main returns; in main_verbose.py and
\* main_customer.py connect() has already been made when the configuration is
\* checked.
ValidationBeforeConnect ==
    /\ script = "main" =>
           /\ \A j \in Events("connect") : \E i \in Events("config") : i < j
           /\ \A i \in Events("config") :
                  trace[i][2] = "missing" =>
                      /\ Events("connect") = {}
                      /\ Events("agent") = {}
                      /\ spc = "returned" => Events("close") # {}
    /\ script \in {"main_verbose", "main_customer"} =>
           \A i \in Events("config") : \E j \in Events("connect") : j < i

\* C23 as stated: in main_improved.py and main_compatible.py the background
\* registration task has run to its end (connected and registered, or failed
\* and reported) by the time the agent makes its first model call.
RegisteredBeforeFirstModelCall ==
    script \in BackgroundScripts =>
        \A i \in Events("model_call") : trace[i][2] \in {"done", "failed"}

\* C24 as stated: in main_improved.py and main_compatible.py close() is called
\* only when the task's connect() and registration have completed or failed,
\* never before or while they run, and connect() is never started after
\* close() was called.
CloseAfterRegistration ==
    script \in BackgroundScripts =>
        /\ \A i \in Events("close") :
               trace[i][2] \in {"", "none", "done", "failed"}
        /\ \A j \in Events("connect") : \A i \in Events("close") : j < i

\* the entry functions that hold a conversation loop
LoopScripts == {"main_customer", "interactive_custom_model", "interactive_chat"}

\* the user's and the agent's turns of a run, in order
Turns == SelectSeq(trace, LAMBDA e : e[1] \in {"user", "agent"})

\* whether the claim counts the user's text as a request to exit
ExitRequested(text) ==
    IF script = "main_customer" THEN text = "exit" ELSE text \in {"exit", "EXIT"}

\* the turns alternate from the user on, and a request to exit is the last turn
TurnsAlternate ==
    \A i \in 1..Len(Turns) :
        /\ Turns[i][1] = (IF i % 2 = 1 THEN "user" ELSE "agent")
        /\ (Turns[i][1] = "user" /\ ExitRequested(Turns[i][2])) => i = Len(Turns)

\* a step that leaves the loop raises an exception or takes a request to exit
LeavesLoopOnExitOrException ==
    (spc \in {"user", "agent"} /\ spc' \notin {"user", "agent"}) =>
        \/ exc' # ""
        \/ /\ trace' # <<>>
           /\ trace'[Len(trace')][1] = "user"
           /\ ExitRequested(trace'[Len(trace')][2])

\* C25: in the conversation loops of main_customer.py, interactive_custom_model
\* and interactive_chat the user's and the agent's turns alternate strictly,
\* starting with the user; the agent is never called on the message that asks
\* to exit; the loop ends only on that message or on an exception; the match is
\* exact ("exit") in main_customer.py and ignores case in the other two.
ConversationLoop ==
    /\ [](script \in LoopScripts => TurnsAlternate)
    /\ [][(script \in LoopScripts) => LeavesLoopOnExitOrException]_vars

\* witness of C25: interactive_chat answered once and ended on "EXIT"
ChatEndedOnUpperCaseExit ==
    /\ script = "interactive_chat"
    /\ spc = "returned"
    /\ escaped = ""
    /\ Turns = <<(<<"user", "hello">>), (<<"agent", "">>), (<<"user", "EXIT">>)>>

\* C26: test_custom_models attempts the five model configurations once each,
\* in the order DashScope, OpenAI, Ollama, custom compatible, vLLM; an Exception
\* while creating or using one of them is reported and never keeps the later
\* ones from being attempted.
EachConfigurationAttemptedOnce ==
    script = "test_custom_models" =>
        /\ Len(Created) <= Len(ModelConfigs)
        /\ \A i \in 1..Len(Created) : Created[i][2] = ModelConfigs[i]
        /\ \A i \in Events("agent") :
               /\ i > 1
               /\ trace[i - 1] = <<"create", trace[i][2]>>
        /\ (spc = "returned" /\ escaped = "") => Len(Created) = Len(ModelConfigs)
        /\ escaped = "Exception" => escaped_from = "print"

\* witness of C26: DashScope could not be created, and the function returned
\* after OpenAI and, last, vLLM had been asked
LaterConfigurationsAttempted ==
    /\ script = "test_custom_models"
    /\ spc = "returned"
    /\ escaped = ""
    /\ Len(trace) >= 4
    /\ trace[1] = <<"create", "DashScope">>
    /\ trace[2] = <<"create", "OpenAI">>
    /\ trace[3] = <<"agent", "OpenAI">>
    /\ trace[Len(trace)] = <<"agent", "vLLM">>

\* the callers of create_custom_model
CreateCustomModelCallers == {"test_custom_model", "interactive_chat"}

\* whether a variable is set and not empty
IsSet(v) == v # None /\ v # Str(<<>>)

\* C27: create_custom_model constructs a model only when
\* CUSTOM_OPENAI_API_KEY, CUSTOM_OPENAI_BASE_URL and CUSTOM_MODEL_NAME are all
\* set and not empty; otherwise it raises a ValueError that names the first
\* missing one in that order and constructs nothing; test_custom_model and
\* interactive_chat catch and report that error, and test_custom_model returns
\* False.
ModelOnlyFromCompleteConfiguration ==
    script \in CreateCustomModelCallers =>
        /\ Events("construct") # {} =>
               IsSet(env.api_key) /\ IsSet(env.base_url) /\ IsSet(env.model_name)
        /\ \A i \in Events("raise") :
               /\ Events("construct") = {}
               /\ trace[i][2] =
                      (IF ~IsSet(env.api_key) THEN "CUSTOM_OPENAI_API_KEY"
                       ELSE IF ~IsSet(env.base_url) THEN "CUSTOM_OPENAI_BASE_URL"
                       ELSE "CUSTOM_MODEL_NAME")
               /\ ~IsSet(env.api_key) \/ ~IsSet(env.base_url) \/ ~IsSet(env.model_name)
               /\ IF i = Len(trace) THEN spc = "except" ELSE trace[i + 1][1] = "report"
               /\ Events("agent") = {}
               /\ (script = "test_custom_model" /\ spc = "returned" /\ escaped = "") =>
                      trace[Len(trace)] = <<"return", "False">>
               /\ script = "test_custom_model" => escaped_from # "try"
        /\ spc # "notStarted" => Events("construct") # {} \/ Events("raise") # {}

\* witness of C27: the base URL is empty, the key and the model name are set,
\* and test_custom_model has returned False
EmptyBaseUrlReturnsFalse ==
    /\ script = "test_custom_model"
    /\ env = [api_key |-> Str(<<"a">>), base_url |-> Str(<<>>), model_name |-> Str(<<"a">>)]
    /\ spc = "returned"
    /\ trace = <<(<<"raise", "CUSTOM_OPENAI_BASE_URL">>), (<<"report", "">>), (<<"return", "False">>)>>

\* the prompts of a session: what the user typed, or a failed input()
IsPrompt(i) == trace[i][1] \in {"prompt", "input_raises"}

\* what the loop makes of the text typed at prompt i
Query(i) == Lower(Strip(trace[i][2]))

\* what C28 says about the queries and the search clients: a word that ends
\* the session is the last thing typed; an empty query is followed by the next
\* prompt; a topic is followed by the creation of a client, and a client is
\* created only for a topic; a run that entered main_improved's try block has
\* attempted close() before the next prompt
QueriesAndClients ==
    /\ \A i \in Events("prompt") :
           /\ Query(i) \in QuitWords => (i = Len(trace) /\ spc = "ended")
           /\ (Query(i) = "" /\ i < Len(trace)) => IsPrompt(i + 1)
           /\ (Query(i) \notin QuitWords \cup {""} /\ i < Len(trace)) =>
                  trace[i + 1] = <<"client", "">>
    /\ \A c \in Events("client") :
           /\ c > 1
           /\ trace[c - 1][1] = "prompt"
           /\ Query(c - 1) \notin QuitWords \cup {""}
    /\ \A t \in Events("try") :
           \A p \in (t + 1)..Len(trace) :
               IsPrompt(p) => \E c \in (t + 1)..(p - 1) : trace[c][1] = "close"
    /\ (spc = "prompt" /\ tried) => closed # ""

\* C28 as stated: interactive_mode keeps prompting after any failed research
\* and ends only when the user enters quit, exit or the Chinese word for exit
\* (in any case); an empty query starts no research; every other query runs
\* main_improved with a fresh client whose close() is attempted before the
\* next prompt whenever the try block was entered.
EndsOnlyOnQuitWord ==
    script = "interactive_mode" =>
        /\ QueriesAndClients
        /\ spc = "ended" =>
               /\ trace # <<>>
               /\ trace[Len(trace)][1] = "prompt"
               /\ Query(Len(trace)) \in QuitWords

\* C28, amended: as stated, except that interactive_mode also ends when
\* input() raises, when an exception that is neither an Exception nor a
\* KeyboardInterrupt leaves main_improved, or when the report of a failed
\* research itself raises; an Exception of the research never ends it.
EndsOnQuitWordOrEscapingException ==
    script = "interactive_mode" =>
        /\ QueriesAndClients
        /\ (spc = "ended" /\ escaped = "") =>
               /\ trace # <<>>
               /\ trace[Len(trace)][1] = "prompt"
               /\ Query(Len(trace)) \in QuitWords
        /\ (spc = "ended" /\ escaped = "Exception") => escaped_from \in {"input", "print"}

\* witness of C28: the first research failed inside the try block, its client
\* was closed, a second topic was asked, and the session ended on " EXIT "
PromptedAgainAfterFailure ==
    /\ script = "interactive_mode"
    /\ spc = "ended"
    /\ escaped = ""
    /\ Len(Queries) = 2
    /\ Len(trace) > 6
    /\ trace[2] = <<"client", "">>
    /\ trace[3] = <<"try", "">>
    /\ trace[4] = <<"report", "">>
    /\ trace[5][1] = "close"
    /\ trace[Len(trace)] = <<"prompt", " EXIT ">>
====
